---------------------------- MODULE Spec2Model ----------------------------
(***************************************************************************)
(* FourierNetHead (mmdet/models/anchor_heads/fouriernet_head.py).          *)
(*                                                                         *)
(* Each method of the head is one action: the action reads the object's    *)
(* configuration (self) and the call's arguments (args) and leaves the     *)
(* method's result, or the exception it raised, in ret together with the   *)
(* locals the properties talk about (loc).                                 *)
(*                                                                         *)
(* Numbers.  Coordinates, strides and distances are integers.  A tensor    *)
(* of shape [n, ...] is a sequence of n rows.                              *)
(***************************************************************************)
EXTENDS Integers, Sequences, FiniteSets, TLC

VARIABLES
    self,   \* the head's configuration, as set by __init__
    call,   \* the method being called
    args,   \* the arguments of the call
    loc,    \* the locals of the call once it has run
    pc,     \* "call" before the method runs, "done" / "error" after
    ret     \* the returned value, or the name of the exception raised

vars == <<self, call, args, loc, pc, ret>>

----------------------------------------------------------------------------
(* Bounds of the model. *)

MaxLevels == 2      \* configured pyramid levels (len(self.strides))
MaxDim == 2         \* largest feature-map height / width

----------------------------------------------------------------------------
(* Generic helpers. *)

\* s itself, built once as a tuple (a function expression is re-evaluated
\* at each application otherwise).
Tuple(s) == s \o <<>>

RECURSIVE Flatten(_)
\* torch.cat(list_of_tensors): the rows of every tensor, in list order.
Flatten(ss) == IF ss = <<>> THEN <<>> ELSE Head(ss) \o Flatten(Tail(ss))

SeqsUpTo(S, lo, hi) == UNION {[1..n -> S] : n \in lo..hi}

\* What a call leaves in ret: the value it returned, or the exception raised.
Return(v) == [exc |-> "", val |-> v]
Raise(e) == [exc |-> e, val |-> <<>>]
Raised(r) == r.exc # ""
NoRet == [exc |-> "", val |-> <<>>]

----------------------------------------------------------------------------
(* get_points / get_points_single. *)

\* torch.arange(start, end, step) for step > 0: start, start+step, ... < end.
arange(start, end, step) ==
    LET n == IF end <= start THEN 0 ELSE ((end - start) + step - 1) \div step
    IN  [i \in 1..n |-> start + (i - 1) * step]

\* A faulty get_points_single: meshgrid called with its arguments swapped
\* (column-major order).
get_points_single_colmajor(featmap_size, stride) ==
    LET h == featmap_size[1]
        w == featmap_size[2]
        x_range == arange(0, w * stride, stride)
        y_range == arange(0, h * stride, stride)
    IN  [n \in 1..(h * w) |->
            <<x_range[((n - 1) \div h) + 1] + (stride \div 2),
              y_range[((n - 1) % h) + 1] + (stride \div 2)>>]

\* y, x = meshgrid(y_range, x_range): y[i][j] = y_range[i], x[i][j] =
\* x_range[j]; reshape(-1) lists row i = (n-1) div w, column j = (n-1) mod w.
get_points_single(featmap_size, stride) ==
    LET h == featmap_size[1]
        w == featmap_size[2]
        x_range == arange(0, w * stride, stride)
        y_range == arange(0, h * stride, stride)
    IN  [n \in 1..(h * w) |->
            <<x_range[((n - 1) % w) + 1] + (stride \div 2),
              y_range[((n - 1) \div w) + 1] + (stride \div 2)>>]

\* for i in range(len(featmap_sizes)): ... self.strides[i] ...
\* (IndexError when there are more feature maps than strides).
get_points(strides, featmap_sizes) ==
    IF Len(featmap_sizes) > Len(strides)
    THEN Raise("IndexError")
    ELSE Return([i \in 1..Len(featmap_sizes) |->
                    get_points_single(featmap_sizes[i], strides[i])])

StrideSet == {2, 3, 4}
FeatmapSizes == (0..MaxDim) \X (0..MaxDim)

NoSelf == [strides |-> <<>>]
NoLoc == [none |-> TRUE]

InitPoints ==
    /\ self \in {[strides |-> s] : s \in [1..MaxLevels -> StrideSet]}
    /\ call = "get_points"
    /\ args \in {[featmap_sizes |-> f] :
                    f \in SeqsUpTo(FeatmapSizes, 1, MaxLevels + 1)}
    /\ loc = NoLoc
    /\ pc = "call"
    /\ ret = NoRet

GetPoints ==
    /\ pc = "call"
    /\ call = "get_points"
    /\ LET r == get_points(self.strides, args.featmap_sizes)
       IN  /\ ret' = r
           /\ pc' = IF Raised(r) THEN "error" ELSE "done"
    /\ UNCHANGED <<self, call, args, loc>>

NextPoints == GetPoints

SpecPoints == InitPoints /\ [][NextPoints]_vars

----------------------------------------------------------------------------
(* __init__: the angle table. *)

MaxK == 8           \* largest contour_points tried at construction

\* torch.range(start, end, step): start, start+step, ... <= end (end is
\* included); a zero step is an error.
range(start, end, step) ==
    IF step = 0 THEN Raise("RuntimeError")
    ELSE Return([i \in 1..(((end - start) \div step) + 1) |->
                    start + (i - 1) * step])

\* self.interval = 360 // self.contour_points
\* self.angles = torch.range(0, 359, self.interval) / 180 * math.pi
\* The table is kept in whole degrees; sin_deg / cos_deg take degrees, so
\* the factor pi/180 is applied where the angle is used.
init_angles(contour_points) == range(0, 359, 360 \div contour_points)

\* The constructor: the keyword arguments copied to the object, the angle
\* step and the angle table added.  A raising constructor builds no object.
__init__(kw) ==
    LET a == init_angles(kw.contour_points)
    IN  IF Raised(a) THEN a
        ELSE Return([use_fourier |-> kw.use_fourier,
                     contour_points |-> kw.contour_points,
                     num_coe |-> kw.num_coe,
                     visulize_coe |-> kw.visulize_coe,
                     interval |-> 360 \div kw.contour_points,
                     num_classes |-> kw.num_classes,
                     cls_out_channels |-> kw.num_classes - 1,
                     strides |-> kw.strides,
                     regress_ranges |-> kw.regress_ranges,
                     loss_on_coe |-> kw.loss_on_coe,
                     mask_nms |-> kw.mask_nms,
                     bbox_from_mask |-> kw.bbox_from_mask,
                     angles |-> a.val,
                     centerness_factor |-> kw.centerness_factor])

\* The keyword arguments of a head; f overrides the defaults used here.
Kwargs(K, fourier, coe, vis, from_mask, on_coe, nms, classes, strides) ==
    [use_fourier |-> fourier, contour_points |-> K, num_coe |-> coe,
     visulize_coe |-> vis, num_classes |-> classes, strides |-> strides,
     regress_ranges |-> [i \in 1..Len(strides) |-> <<i - 1, i>>],
     loss_on_coe |-> on_coe, mask_nms |-> nms, bbox_from_mask |-> from_mask,
     centerness_factor |-> 500]

----------------------------------------------------------------------------
(* Fixed point.  Decoded coordinates (boxes, polygons) and the sigmoid     *)
(* outputs are fixed-point numbers in thousandths: Fx(v) is v as such.     *)

Fx(v) == v * 1000

\* round(1000 * sin(d degrees)) for d = 0..90.
SinQ == <<
    0, 17, 35, 52, 70, 87, 105, 122, 139, 156, 174, 191, 208,
    225, 242, 259, 276, 292, 309, 326, 342, 358, 375, 391, 407, 423,
    438, 454, 469, 485, 500, 515, 530, 545, 559, 574, 588, 602, 616,
    629, 643, 656, 669, 682, 695, 707, 719, 731, 743, 755, 766, 777,
    788, 799, 809, 819, 829, 839, 848, 857, 866, 875, 883, 891, 899,
    906, 914, 921, 927, 934, 940, 946, 951, 956, 961, 966, 970, 974,
    978, 982, 985, 988, 990, 993, 995, 996, 998, 999, 999, 1000, 1000 >>

sin_deg(d) ==
    LET a == d % 360
    IN  IF a <= 90 THEN SinQ[a + 1]
        ELSE IF a <= 180 THEN SinQ[(180 - a) + 1]
        ELSE IF a <= 270 THEN 0 - SinQ[(a - 180) + 1]
        ELSE 0 - SinQ[(360 - a) + 1]

cos_deg(d) == sin_deg(d + 90)

Min(a, b) == IF a <= b THEN a ELSE b
Max(a, b) == IF a >= b THEN a ELSE b

\* A faulty clamp: only the lower limit is applied.
clamp_lower(x, lo, hi) == Max(x, lo)

\* Tensor.clamp(min=lo, max=hi)
clamp(x, lo, hi) == Min(Max(x, lo), hi)


----------------------------------------------------------------------------
(* distance2mask. *)

MaxCoe == 3         \* largest num_coe / visulize_coe tried

\* Shapes [.., a] and [.., b] broadcast to max(a, b) when a = b or one of
\* them is 1; 0 stands for "not broadcastable" (RuntimeError).
Broadcast(a, b) == IF a = b \/ b = 1 THEN a ELSE IF a = 1 THEN b ELSE 0

\* Length of the coefficient sequence handed to torch.irfft, which is also
\* the length of its output (onesided=False); -1 when torch.zeros is asked
\* for a negative size.
\*   train: cat([distances, zeros(n, contour_points - num_coe, 2)], 1)
\*   else:  cat([distances.reshape(-1, num_coe, 2)[..., :visulize_coe, :],
\*               zeros(n, contour_points - visulize_coe, 2)], 1)
irfft_len(slf, train) ==
    IF train
    THEN IF slf.contour_points - slf.num_coe < 0 THEN -1
         ELSE slf.num_coe + (slf.contour_points - slf.num_coe)
    ELSE IF slf.contour_points - slf.visulize_coe < 0 THEN -1
         ELSE Min(slf.visulize_coe, slf.num_coe)
                + (slf.contour_points - slf.visulize_coe)

\* Width of the distance rows that reach the polygon arithmetic.
distances_width(slf, distances, train) ==
    IF slf.use_fourier THEN irfft_len(slf, train)
    ELSE IF distances = <<>> THEN slf.contour_points
    ELSE Len(distances[1])

\* Lines 586-606.  dist is the [n, d] tensor of ray distances: the argument
\* itself, or on the Fourier path the value of irfft(...).float().exp().
\* Returns (res, distances), res of shape [n, 2, width].
polygon_of(slf, points, dist, d, max_shape, bbox) ==
    LET A == Len(slf.angles)
        width == Broadcast(d, A)
        ia(k) == IF A = 1 THEN 1 ELSE k
        id(k) == IF d = 1 THEN 1 ELSE k
        x0(n, k) == dist[n][id(k)] * sin_deg(slf.angles[ia(k)])
                        + Fx(points[n][1])
        y0(n, k) == dist[n][id(k)] * cos_deg(slf.angles[ia(k)])
                        + Fx(points[n][2])
        x1(n, k) == IF max_shape # <<>>
                    THEN clamp(x0(n, k), 0, Fx(max_shape[1][2] - 1))
                    ELSE x0(n, k)
        y1(n, k) == IF max_shape # <<>>
                    THEN clamp(y0(n, k), 0, Fx(max_shape[1][1] - 1))
                    ELSE y0(n, k)
        x2(n, k) == IF bbox # <<>>
                    THEN Max(Min(x1(n, k), bbox[1][n][3]), bbox[1][n][1])
                    ELSE x1(n, k)
        y2(n, k) == IF bbox # <<>>
                    THEN Max(Min(y1(n, k), bbox[1][n][4]), bbox[1][n][2])
                    ELSE y1(n, k)
    IN  IF width = 0 THEN Raise("RuntimeError")
        ELSE Return(<<Tuple([n \in 1..Len(points) |->
                        <<Tuple([k \in 1..width |-> x2(n, k)]),
                          Tuple([k \in 1..width |-> y2(n, k)])>>]),
                      dist>>)

\* distance2mask(points, distances, max_shape, train, bbox).  decoded is the
\* value irfft(...).float().exp() takes on the Fourier path: some [n, L]
\* tensor of positive numbers, L = irfft_len.
distance2mask(slf, points, distances, max_shape, train, bbox, decoded) ==
    IF slf.use_fourier
    THEN IF irfft_len(slf, train) < 0 THEN Raise("RuntimeError")
         ELSE polygon_of(slf, points, decoded, irfft_len(slf, train),
                         max_shape, bbox)
    ELSE polygon_of(slf, points, distances,
                    distances_width(slf, distances, train), max_shape, bbox)

\* Ray-distance rows of width d (positive numbers, as exp() yields).
DistRows(d) ==
    {[k \in 1..d |-> 1], [k \in 1..d |-> 5],
     [k \in 1..d |-> IF k % 2 = 1 THEN 5 ELSE 1]}

\* The values irfft(...).exp() may take for n rows: any positive rows of the
\* transform's length (none when the transform is not run).
Decoded(slf, n, train) ==
    IF slf.use_fourier /\ irfft_len(slf, train) >= 0
    THEN [1..n -> DistRows(irfft_len(slf, train))]
    ELSE {<<>>}

\* Raw mask predictions for n points: ray distances, or num_coe (re, im)
\* coefficient pairs per point on the Fourier path.
MaskRows(slf, n) ==
    IF slf.use_fourier
    THEN {[i \in 1..n |-> [c \in 1..slf.num_coe |-> <<0, 0>>]]}
    ELSE [1..n -> DistRows(slf.contour_points)]

----------------------------------------------------------------------------
(* Construction followed by polygon decoding. *)

CtorArgs ==
    {Kwargs(K, f, c, v, FALSE, FALSE, FALSE, 2, <<4>>) :
        K \in 1..MaxK, f \in BOOLEAN, c \in 1..MaxCoe, v \in 0..MaxCoe}

InitCtor ==
    /\ self = NoSelf
    /\ call = "__init__"
    /\ args \in CtorArgs
    /\ loc = NoLoc
    /\ pc = "call"
    /\ ret = NoRet

Construct ==
    /\ pc = "call"
    /\ call = "__init__"
    /\ LET r == __init__(args)
       IN  /\ ret' = r
           /\ self' = IF Raised(r) THEN self ELSE r.val
           /\ pc' = IF Raised(r) THEN "error" ELSE "done"
    /\ UNCHANGED <<call, args, loc>>

PointSets == {<<>>, <<<<2, 2>>>>, <<<<2, 2>>, <<6, 2>>>>}
MaxShapes == {<<>>, <<<<4, 6>>>>}
\* The bbox argument: None, or one box (x1, y1, x2, y2) per point: inside
\* the 4 x 6 image, reaching beyond its right edge, or flattened onto the
\* right edge (what clamping leaves of a box around an outside centre).
BBoxes(n) ==
    {<<>>} \cup {<<[i \in 1..n |-> b]>> :
                    b \in {<<Fx(1), Fx(1), Fx(3), Fx(3)>>,
                           <<Fx(4), Fx(0), Fx(8), Fx(2)>>,
                           <<Fx(5), Fx(1), Fx(5), Fx(3)>>}}

Distance2Mask ==
    /\ pc = "done"
    /\ call = "__init__"
    /\ \E points \in PointSets, max_shape \in MaxShapes, train \in BOOLEAN :
        \E distances \in MaskRows(self, Len(points)),
           decoded \in Decoded(self, Len(points), train),
           bbox \in BBoxes(Len(points)) :
            LET r == distance2mask(self, points, distances, max_shape,
                                   train, bbox, decoded)
            IN  /\ call' = "distance2mask"
                /\ args' = [points |-> points, distances |-> distances,
                            max_shape |-> max_shape, train |-> train,
                            bbox |-> bbox]
                /\ ret' = r
                /\ pc' = IF Raised(r) THEN "error" ELSE "done"
    /\ UNCHANGED <<self, loc>>

NextCtor == Construct \/ Distance2Mask

SpecCtor == InitCtor /\ [][NextCtor]_vars

----------------------------------------------------------------------------
(* Tensors of the decoder. *)

MaxPerLevel == 3    \* most points on one level in the inputs tried

\* A [ch, H, W] tensor is t[c][h][w].  t.size()[-2:]
size2(t) == <<Len(t[1]), Len(t[1][1])>>

\* t.permute(1, 2, 0).reshape(-1, ch): row n is grid cell
\* ((n-1) div W, (n-1) mod W), holding the ch channel values of that cell.
permute_reshape(t) ==
    LET H == Len(t[1])
        W == Len(t[1][1])
    IN  [n \in 1..(H * W) |->
            [c \in 1..Len(t) |-> t[c][((n - 1) \div W) + 1][((n - 1) % W) + 1]]]

\* Tensor.sigmoid(), in thousandths, on the logits tried.
sigmoid(v) ==
    CASE v = -2 -> 119 [] v = -1 -> 269 [] v = 0 -> 500
      [] v = 1 -> 731 [] v = 2 -> 881

RECURSIVE SeqMax(_)
SeqMax(s) == IF Len(s) = 1 THEN s[1] ELSE Max(s[1], SeqMax(Tail(s)))
RECURSIVE SeqMin(_)
SeqMin(s) == IF Len(s) = 1 THEN s[1] ELSE Min(s[1], SeqMin(Tail(s)))

\* x[inds]: the rows of x named by inds, in that order.
Gather(x, inds) == [j \in 1..Len(inds) |-> x[inds[j]]]

\* values.topk(k)[1]: the indices of the k largest values, largest first.
\* Which of several equal values comes first is not specified: tie (a
\* ranking of the indices) is the order the kernel happens to use.
topk(v, k, tie) ==
    LET better(i, j) == v[i] > v[j] \/ (v[i] = v[j] /\ tie[i] < tie[j])
        rank(i) == Cardinality({j \in DOMAIN v : better(j, i)}) + 1
    IN  [p \in 1..k |-> CHOOSE i \in DOMAIN v : rank(i) = p]

\* (scores * centerness[:, None]).max(dim=1)[0]
fused_scores(scores, centerness) ==
    Tuple([n \in 1..Len(scores) |->
        SeqMax([c \in 1..Len(scores[n]) |-> scores[n][c] * centerness[n]])])

\* mmdet.core.distance2bbox(points, distance, max_shape): the box
\* (x - left, y - top, x + right, y + bottom), clamped to the image.
distance2bbox(points, distance, max_shape) ==
    [n \in 1..Len(points) |->
        LET x1 == Fx(points[n][1] - distance[n][1])
            y1 == Fx(points[n][2] - distance[n][2])
            x2 == Fx(points[n][1] + distance[n][3])
            y2 == Fx(points[n][2] + distance[n][4])
        IN  IF max_shape # <<>>
            THEN <<clamp(x1, 0, Fx(max_shape[1][2] - 1)),
                   clamp(y1, 0, Fx(max_shape[1][1] - 1)),
                   clamp(x2, 0, Fx(max_shape[1][2] - 1)),
                   clamp(y2, 0, Fx(max_shape[1][1] - 1))>>
            ELSE <<x1, y1, x2, y2>>]

\* torch.stack([m[:, 0].min(1)[0], m[:, 1].min(1)[0],
\*              m[:, 0].max(1)[0], m[:, 1].max(1)[0]], -1)
extent(masks) ==
    [n \in 1..Len(masks) |->
        <<SeqMin(masks[n][1]), SeqMin(masks[n][2]),
          SeqMax(masks[n][1]), SeqMax(masks[n][2])>>]

----------------------------------------------------------------------------
(* get_bboxes_single: the per-level loop body (lines 486-519). *)

\* A faulty gather_all: the top-k gather is not applied to centerness.
gather_all_but_centerness(points, bbox_pred, mask_pred, scores, centerness, topk_inds) ==
    [filtered |-> TRUE, topk_inds |-> topk_inds,
     points |-> Tuple(Gather(points, topk_inds)),
     bbox_pred |-> Tuple(Gather(bbox_pred, topk_inds)),
     mask_pred |-> Tuple(Gather(mask_pred, topk_inds)),
     scores |-> Tuple(Gather(scores, topk_inds)),
     centerness |-> SubSeq(centerness, 1, Len(topk_inds))]

\* Lines 500-504: x = x[topk_inds] for each of the five tensors.
gather_all(points, bbox_pred, mask_pred, scores, centerness, topk_inds) ==
    [filtered |-> TRUE, topk_inds |-> topk_inds,
     points |-> Tuple(Gather(points, topk_inds)),
     bbox_pred |-> Tuple(Gather(bbox_pred, topk_inds)),
     mask_pred |-> Tuple(Gather(mask_pred, topk_inds)),
     scores |-> Tuple(Gather(scores, topk_inds)),
     centerness |-> Tuple(Gather(centerness, topk_inds))]

\* Lines 496-504: nms_pre = cfg.get('nms_pre', -1);
\* if 0 < nms_pre < scores.shape[0]: keep the rows topk_inds of all five.
prefilter(points, bbox_pred, mask_pred, scores, centerness, nms_pre, tie) ==
    IF 0 < nms_pre /\ nms_pre < Len(scores)
    THEN gather_all(points, bbox_pred, mask_pred, scores, centerness,
                    Tuple(topk(fused_scores(scores, centerness), nms_pre,
                               tie)))
    ELSE [filtered |-> FALSE, topk_inds |-> <<>>, points |-> points,
          bbox_pred |-> bbox_pred, mask_pred |-> mask_pred,
          scores |-> scores, centerness |-> centerness]

\* Lines 505-519: boxes and polygons of the kept points of a level; m is
\* what distance2mask returned.
level_decoded(slf, img_shape, n, kept, m) ==
    IF Raised(m) THEN m
    ELSE Return([n |-> n,
                 filtered |-> kept.filtered,
                 topk_inds |-> kept.topk_inds,
                 points |-> kept.points,
                 bbox_pred |-> kept.bbox_pred,
                 mask_pred |-> kept.mask_pred,
                 scores |-> kept.scores,
                 centerness |-> kept.centerness,
                 masks |-> m.val[1],
                 bboxes |-> IF ~slf.bbox_from_mask
                            THEN Tuple(distance2bbox(kept.points,
                                            kept.bbox_pred, <<img_shape>>))
                            ELSE Tuple(extent(m.val[1]))])

level_kept(slf, img_shape, n, kept, dec) ==
    level_decoded(slf, img_shape, n, kept,
                  distance2mask(slf, kept.points, kept.mask_pred,
                                <<img_shape>>, FALSE, <<>>,
                                [i \in 1..Len(kept.points) |-> dec]))

\* Lines 487-495: the flattened, activated tensors of a level.
level_flat(slf, cfg, img_shape, points, scores, centerness, bbox_pred, mask_pred, tie, dec) ==
    level_kept(slf, img_shape, Len(scores),
               prefilter(points, bbox_pred, mask_pred, scores, centerness,
                         cfg.nms_pre, tie),
               dec)

\* One iteration of the loop over levels.  dec is the row irfft(...).exp()
\* yields for the points of this call (Fourier path only).
level_body(slf, cfg, img_shape, cls_score, bbox_pred, mask_pred, centerness, points, tie, dec) ==
    IF size2(cls_score) # size2(bbox_pred) THEN Raise("AssertionError")
    ELSE level_flat(slf, cfg, img_shape, points,
            Tuple([n \in 1..(size2(cls_score)[1] * size2(cls_score)[2]) |->
                Tuple([c \in 1..slf.cls_out_channels |->
                        sigmoid(permute_reshape(cls_score)[n][c])])]),
            Tuple([n \in 1..(size2(centerness)[1] * size2(centerness)[2]) |->
                sigmoid(permute_reshape(centerness)[n][1])]),
            Tuple(permute_reshape(bbox_pred)),
            Tuple(permute_reshape(mask_pred)),
            tie, dec)

----------------------------------------------------------------------------
(* get_bboxes_single: rescaling (lines 523-529).                           *)
(* A quotient x / s of a coordinate by a scale is kept as the pair <<x, s>>.*)

\* Scale factors.  img_meta['scale_factor'] is a Python float, a Python int
\* or a 4-vector (w_scale, h_scale, w_scale, h_scale).
PyFloat(v) == [kind |-> "float", v |-> <<v>>]
PyInt(v) == [kind |-> "int", v |-> <<v>>]
NdArray(v) == [kind |-> "array", v |-> v]

\* mlvl_bboxes / mlvl_bboxes.new_tensor(scale_factor)
rescale_bboxes(mlvl_bboxes, scale_factor) ==
    IF scale_factor.kind = "array"
    THEN IF Broadcast(4, Len(scale_factor.v)) # 4 THEN Raise("RuntimeError")
         ELSE Return([n \in 1..Len(mlvl_bboxes) |-> [j \in 1..4 |->
                <<mlvl_bboxes[n][j],
                  scale_factor.v[IF Len(scale_factor.v) = 1 THEN 1 ELSE j]>>]])
    ELSE Return([n \in 1..Len(mlvl_bboxes) |-> [j \in 1..4 |->
                <<mlvl_bboxes[n][j], scale_factor.v[1]>>]])

\* torch.Tensor(scale_factor): a float is a TypeError; an int n makes a
\* tensor of n uninitialised elements (uninit gives what they hold); a
\* vector is copied.
torch_Tensor(scale_factor, uninit) ==
    CASE scale_factor.kind = "float" -> Raise("TypeError")
      [] scale_factor.kind = "int" ->
            Return([i \in 1..scale_factor.v[1] |->
                        uninit[((i - 1) % 2) + 1]])
      [] scale_factor.kind = "array" -> Return(scale_factor.v)

\* mlvl_masks / t for t of shape [m, K]: x rows by t[0], y rows by t[1]
\* (by t[0] when m = 1).
div_masks(mlvl_masks, t, K) ==
    LET width == IF mlvl_masks = <<>> THEN K ELSE Len(mlvl_masks[1][1])
        w == Broadcast(width, K)
    IN  IF w = 0 \/ Broadcast(2, Len(t)) # 2 THEN Raise("RuntimeError")
        ELSE Return([n \in 1..Len(mlvl_masks) |-> [ax \in 1..2 |->
                [k \in 1..w |->
                    <<mlvl_masks[n][ax][IF width = 1 THEN 1 ELSE k],
                      t[IF Len(t) = 1 THEN 1 ELSE ax]>>]]])

\* try:    scale_factor = torch.Tensor(scale_factor)[:2].cuda()
\*                              .unsqueeze(1).repeat(1, self.contour_points)
\*         _mlvl_masks = mlvl_masks / scale_factor
\* except: _mlvl_masks = mlvl_masks / mlvl_masks.new_tensor(scale_factor)
\* When the division in the try block raises, scale_factor is already the
\* [m, K] tensor and the division of the except block raises again.
rescale_masks(mlvl_masks, scale_factor, K, uninit) ==
    LET T == torch_Tensor(scale_factor, uninit)
    IN  IF Raised(T)
        THEN Return([n \in 1..Len(mlvl_masks) |-> [ax \in 1..2 |->
                [k \in 1..Len(mlvl_masks[n][ax]) |->
                    <<mlvl_masks[n][ax][k], scale_factor.v[1]>>]]])
        ELSE div_masks(mlvl_masks, SubSeq(T.val, 1, Min(2, Len(T.val))), K)

\* Order of quotients with positive denominators.
QLe(p, q) == p[1] * q[2] <= q[1] * p[2]
QMin(s) == CHOOSE p \in {s[i] : i \in DOMAIN s} :
                \A i \in DOMAIN s : QLe(p, s[i])
QMax(s) == CHOOSE p \in {s[i] : i \in DOMAIN s} :
                \A i \in DOMAIN s : QLe(s[i], p)

\* torch.stack([a[:, 0].min(1)[0], a[:, 1].min(1)[0],
\*              a[:, 0].max(1)[0], a[:, 1].max(1)[0]], -1) on quotients.
extent_q(a) ==
    [n \in 1..Len(a) |->
        <<QMin(a[n][1]), QMin(a[n][2]), QMax(a[n][1]), QMax(a[n][2])>>]

----------------------------------------------------------------------------
(* mmdet.core.multiclass_nms_with_mask, which is not part of the head.     *)

\* For each class column c (column 1 is the background padding): the points
\* whose score exceeds score_thr are candidates, scored by score * factor;
\* suppression drops some of them but never the best of its class (sup is
\* the set of points the IoU test suppresses); the survivors of all classes
\* are cut to the max_num best.
multiclass_nms_with_mask(bboxes, scores, masks, score_thr, max_num, score_factors, sup) ==
    LET ncol == IF scores = <<>> THEN 0 ELSE Len(scores[1])
        sc(i, c) == scores[i][c] * score_factors[i]
        cand == {<<i, c>> \in (1..Len(scores)) \X (2..ncol) :
                    scores[i][c] > score_thr}
        best(ic) == \A jc \in cand : jc[2] = ic[2] =>
                        \/ sc(ic[1], ic[2]) > sc(jc[1], jc[2])
                        \/ /\ sc(ic[1], ic[2]) = sc(jc[1], jc[2])
                           /\ ic[1] <= jc[1]
        kept == {ic \in cand : ic[1] \notin sup \/ best(ic)}
        before(a, b) == \/ sc(a[1], a[2]) > sc(b[1], b[2])
                        \/ /\ sc(a[1], a[2]) = sc(b[1], b[2])
                           /\ \/ a[2] < b[2]
                              \/ a[2] = b[2] /\ a[1] < b[1]
        rank(a) == Cardinality({b \in kept : before(b, a)}) + 1
        n == Min(Cardinality(kept), Max(max_num, 0))
        det == [p \in 1..n |-> CHOOSE a \in kept : rank(a) = p]
    IN  [det_bboxes |-> [p \in 1..n |->
                            <<bboxes[det[p][1]], sc(det[p][1], det[p][2])>>],
         det_labels |-> [p \in 1..n |-> det[p][2] - 2],
         det_masks |-> [p \in 1..n |-> masks[det[p][1]]],
         raw |-> Cardinality(kept)]

----------------------------------------------------------------------------
(* get_bboxes_single and get_bboxes. *)

\* Locals that are assigned on some branches only: <<>> while unassigned,
\* <<v>> once assigned v.
Unassigned == <<>>
Assigned(v) == <<v>>

\* A faulty nms_max_num: the number of candidate points is passed as the cap.
nms_max_num_all(cfg, mlvl_scores) == Len(mlvl_scores)

\* Lines 546 and 557: the cap handed to the NMS routine.
nms_max_num(cfg, mlvl_scores) == cfg.max_per_img

\* A faulty nms_bboxes: the boxes of the mask_nms = False branch on both
\* branches.
nms_bboxes_never_mask(slf, r_mlvl_bboxes, r_mlvl_masks) == r_mlvl_bboxes

\* Lines 536-541 and 552: the boxes handed to the NMS routine; each
\* argument is <<>> while the local _mlvl_bboxes / _mlvl_masks is unassigned.
nms_bboxes(slf, r_mlvl_bboxes, r_mlvl_masks) ==
    IF slf.mask_nms
    THEN IF r_mlvl_masks = Unassigned THEN Unassigned
         ELSE Assigned(extent_q(r_mlvl_masks[1]))
    ELSE r_mlvl_bboxes

\* Lines 531-534 and 547: padded scores and score factors.
pad_scores(mlvl_scores) ==
    [n \in 1..Len(mlvl_scores) |-> <<0>> \o mlvl_scores[n]]

score_factors(slf, mlvl_centerness) ==
    [n \in 1..Len(mlvl_centerness) |->
        mlvl_centerness[n] + slf.centerness_factor]

NoLocals ==
    [levels |-> <<>>, mlvl_bboxes |-> Unassigned, mlvl_masks |-> Unassigned,
     mlvl_scores |-> Unassigned, mlvl_centerness |-> Unassigned,
     r_mlvl_bboxes |-> Unassigned, r_mlvl_masks |-> Unassigned,
     nms |-> Unassigned, nms_survivors |-> 0]

Out(r, l) == [ret |-> r, loc |-> l]

\* Lines 536-560: the NMS call with the arguments call_, and the return.
nms_call(l, call_, sup) ==
    LET det == multiclass_nms_with_mask(call_.bboxes, call_.scores,
                    call_.masks, call_.score_thr, call_.max_num,
                    call_.score_factors, sup)
    IN  Out(Return(<<det.det_bboxes, det.det_labels, det.det_masks>>),
            [l EXCEPT !.nms = Assigned(call_), !.nms_survivors = det.raw])

\* Lines 536-558: reading _mlvl_masks / _mlvl_bboxes raises NameError when
\* the rescale branch has not assigned them.
nms_branch(slf, a, l, boxes, sup) ==
    IF boxes = Unassigned \/ l.r_mlvl_masks = Unassigned
    THEN Out(Raise("NameError"), l)
    ELSE nms_call(l,
                  [bboxes |-> boxes[1],
                   scores |-> l.mlvl_scores[1],
                   masks |-> l.r_mlvl_masks[1],
                   score_thr |-> a.cfg.score_thr,
                   max_num |-> nms_max_num(a.cfg, l.mlvl_scores[1]),
                   score_factors |->
                        Tuple(score_factors(slf, l.mlvl_centerness[1]))],
                  sup)

\* Lines 523-534: rb and rm are the outcomes of the two divisions.
rescaled(slf, a, l, rb, rm, sup) ==
    IF a.rescale = "True" /\ Raised(rb) THEN Out(rb, l)
    ELSE IF a.rescale = "True" /\ Raised(rm) THEN Out(rm, l)
    ELSE nms_branch(slf, a,
            [l EXCEPT !.r_mlvl_bboxes = IF a.rescale = "True"
                                        THEN Assigned(rb.val) ELSE @,
                      !.r_mlvl_masks = IF a.rescale = "True"
                                       THEN Assigned(rm.val) ELSE @],
            nms_bboxes(slf,
                IF a.rescale = "True" THEN Assigned(rb.val) ELSE Unassigned,
                IF a.rescale = "True" THEN Assigned(rm.val) ELSE Unassigned),
            sup)

\* Lines 521-534, with the concatenated tensors of all levels.
concatenated(slf, a, lv, mlvl_bboxes, mlvl_masks, mlvl_scores, mlvl_centerness, sup, uninit) ==
    rescaled(slf, a,
             [NoLocals EXCEPT !.levels = lv,
                              !.mlvl_bboxes = Assigned(mlvl_bboxes),
                              !.mlvl_masks = Assigned(mlvl_masks),
                              !.mlvl_scores = Assigned(mlvl_scores),
                              !.mlvl_centerness = Assigned(mlvl_centerness)],
             IF a.rescale = "True"
             THEN rescale_bboxes(mlvl_bboxes, a.scale_factor) ELSE NoRet,
             IF a.rescale = "True"
             THEN rescale_masks(mlvl_masks, a.scale_factor,
                                slf.contour_points, uninit)
             ELSE NoRet,
             sup)

\* Lines 521-560, after the loop over levels has produced lv (torch.cat of
\* an empty list is an error).
after_levels(slf, a, lv, sup, uninit) ==
    IF Len(lv) = 0 THEN Out(Raise("RuntimeError"), NoLocals)
    ELSE concatenated(slf, a, lv,
            Flatten([i \in 1..Len(lv) |-> lv[i].bboxes]),
            Flatten([i \in 1..Len(lv) |-> lv[i].masks]),
            Tuple(pad_scores(Flatten([i \in 1..Len(lv) |-> lv[i].scores]))),
            Flatten([i \in 1..Len(lv) |-> lv[i].centerness]),
            sup, uninit)

\* The loop over levels has run; res holds the outcome of each iteration.
levels_done(slf, a, res, sup, uninit) ==
    IF \E i \in DOMAIN res : Raised(res[i])
    THEN Out(res[CHOOSE i \in DOMAIN res :
                    Raised(res[i]) /\ \A j \in 1..(i - 1) : ~Raised(res[j])],
             NoLocals)
    ELSE after_levels(slf, a, Tuple([i \in DOMAIN res |-> res[i].val]),
                      sup, uninit)

\* get_bboxes_single(cls_scores, bbox_preds, mask_preds, centernesses,
\*                   mlvl_points, img_shape, scale_factor, cfg, rescale).
\* zip() stops at the shortest of its five lists.
get_bboxes_single(slf, a, tie, dec, sup, uninit) ==
    IF ~(Len(a.cls_scores) = Len(a.bbox_preds)
            /\ Len(a.bbox_preds) = Len(a.mlvl_points))
    THEN Out(Raise("AssertionError"), NoLocals)
    ELSE levels_done(slf, a,
            Tuple([i \in 1..Min(Min(Len(a.cls_scores), Len(a.mask_preds)),
                                Len(a.centernesses)) |->
                level_body(slf, a.cfg, a.img_shape, a.cls_scores[i],
                           a.bbox_preds[i], a.mask_preds[i],
                           a.centernesses[i], a.mlvl_points[i], tie, dec)]),
            sup, uninit)

\* One pass of the loop over images: o is what get_bboxes_single gave.
get_bboxes_step(sa, o, done) ==
    [calls |-> Append(done, [a |-> sa, loc |-> o.loc, ret |-> o.ret]),
     exc |-> o.ret.exc]

\* get_bboxes(cls_scores, bbox_preds, centernesses, mask_preds, img_metas,
\*            cfg, rescale): per-level tensors t[b][c][h][w]; one
\* get_bboxes_single call per image.  Returns the calls made, in order,
\* each with its arguments, locals and outcome.
\* The arguments of the get_bboxes_single call for image img_id.
single_args(a, mlvl_points, img_id) ==
    [cls_scores |-> [i \in 1..Len(a.cls_scores) |-> a.cls_scores[i][img_id]],
     bbox_preds |-> [i \in 1..Len(a.cls_scores) |-> a.bbox_preds[i][img_id]],
     mask_preds |-> [i \in 1..Len(a.cls_scores) |-> a.mask_preds[i][img_id]],
     centernesses |-> [i \in 1..Len(a.cls_scores) |->
                            a.centernesses[i][img_id]],
     mlvl_points |-> mlvl_points,
     img_shape |-> a.img_metas[img_id].img_shape,
     scale_factor |-> a.img_metas[img_id].scale_factor,
     cfg |-> a.cfg,
     rescale |-> a.rescale]

RECURSIVE get_bboxes_loop(_, _, _, _, _, _, _, _, _)
RECURSIVE get_bboxes_next(_, _, _, _, _, _, _, _, _)
\* for img_id in range(len(img_metas)): the lists of centernesses and
\* mask_preds are indexed up to num_levels (IndexError when shorter).
get_bboxes_loop(slf, a, mlvl_points, img_id, done, tie, dec, sup, uninit) ==
    IF img_id > Len(a.img_metas) THEN [calls |-> done, exc |-> ""]
    ELSE IF Len(a.centernesses) < Len(a.cls_scores)
                \/ Len(a.mask_preds) < Len(a.cls_scores)
    THEN [calls |-> done, exc |-> "IndexError"]
    ELSE get_bboxes_next(slf, a, mlvl_points, img_id,
            get_bboxes_step(single_args(a, mlvl_points, img_id),
                get_bboxes_single(slf, single_args(a, mlvl_points, img_id),
                                  tie, dec, sup, uninit),
                done),
            tie, dec, sup, uninit)

get_bboxes_next(slf, a, mlvl_points, img_id, now, tie, dec, sup, uninit) ==
    IF now.exc # "" THEN now
    ELSE get_bboxes_loop(slf, a, mlvl_points, img_id + 1, now.calls, tie,
                         dec, sup, uninit)

get_bboxes_result(l) ==
    IF l.exc # ""
    THEN Out(Raise(l.exc), [single |-> l.calls])
    ELSE Out(Return([i \in 1..Len(l.calls) |-> l.calls[i].ret.val]),
             [single |-> l.calls])

get_bboxes_points(slf, a, mlvl_points, tie, dec, sup, uninit) ==
    IF Raised(mlvl_points) THEN Out(mlvl_points, [single |-> <<>>])
    ELSE get_bboxes_result(
            get_bboxes_loop(slf, a, Tuple(mlvl_points.val), 1, <<>>, tie,
                            dec, sup, uninit))

get_bboxes(slf, a, tie, dec, sup, uninit) ==
    IF Len(a.cls_scores) # Len(a.bbox_preds)
    THEN Out(Raise("AssertionError"), [single |-> <<>>])
    ELSE get_bboxes_points(slf, a,
            get_points(slf.strides,
                       [i \in 1..Len(a.cls_scores) |->
                            size2(a.cls_scores[i][1])]),
            tie, dec, sup, uninit)

----------------------------------------------------------------------------
(* Decoding: inputs and actions. *)

\* A [B, ch, H, W] tensor of fixed positive values that differ from cell to
\* cell (regression outputs after exp()).
ramp(B, ch, size) ==
    [b \in 1..B |-> [c \in 1..ch |-> [h \in 1..size[1] |->
        [w \in 1..size[2] |-> 1 + ((b + c + h + 2 * w) % 3)]]]]

TensorSet(B, ch, size, V) ==
    [1..B -> [1..ch -> [1..size[1] -> [1..size[2] -> V]]]]

\* The sequences of length n whose i-th element is in S[i].
SeqProd(n, S) ==
    {f \in [1..n -> UNION {S[i] : i \in 1..n}] : \A i \in 1..n : f[i] \in S[i]}

\* Channels of the mask branch (polar_mask, lines 159-162).
mask_channels(slf) ==
    IF slf.use_fourier THEN slf.num_coe * 2 ELSE slf.contour_points

\* Feature-map size of level i in the decoding inputs.
DecodeSize(i) == IF i = 1 THEN <<1, 2>> ELSE <<1, 1>>

\* Numbers of levels of (cls_scores, bbox_preds, centernesses, mask_preds).
LevelCounts ==
    {<<n, n, n, n>> : n \in 1..MaxLevels}
        \cup {<<2, 2, 1, 2>>, <<1, 1, 2, 2>>, <<2, 1, 2, 2>>, <<2, 2, 2, 1>>,
              <<1, 1, 1, 2>>, <<2, 2, 2, 0>>}

\* rescale and img_meta['scale_factor'] (which is read only when rescaling).
Rescales ==
    {<<"True", sf>> : sf \in {PyFloat(2), PyInt(1), PyInt(2),
                              NdArray(<<2, 1, 2, 1>>)}}
        \cup {<<"False", PyFloat(2)>>, <<"None", PyFloat(2)>>}
TestCfgs == {[nms_pre |-> -1, max_per_img |-> 1, score_thr |-> 300],
             [nms_pre |-> -1, max_per_img |-> 3, score_thr |-> 300],
             [nms_pre |-> 1, max_per_img |-> 3, score_thr |-> 300]}

\* The arguments of a get_bboxes call on B images with the given level
\* counts; class logits of level i from ClsVals[i], centerness logits from
\* CtrVals[i], feature-map size sizeOf[i].
GetBboxesArgs(slf, B, counts, ClsVals, CtrVals, sizeOf, Cfgs, Rs) ==
    {[cls_scores |-> cls,
      bbox_preds |-> [i \in 1..counts[2] |-> ramp(B, 4, sizeOf[i])],
      centernesses |-> ctr,
      mask_preds |-> [i \in 1..counts[4] |->
                        ramp(B, mask_channels(slf), sizeOf[i])],
      img_metas |-> [b \in 1..B |-> [img_shape |-> <<4, 6>>,
                                     scale_factor |-> r[2]]],
      cfg |-> cfg, rescale |-> r[1]] :
        cls \in SeqProd(counts[1], [i \in 1..MaxLevels |->
                    TensorSet(B, slf.cls_out_channels, sizeOf[i], ClsVals[i])]),
        ctr \in SeqProd(counts[3], [i \in 1..MaxLevels |->
                    TensorSet(B, 1, sizeOf[i], CtrVals[i])]),
        cfg \in Cfgs, r \in Rs}

\* The arguments get_bboxes hands to get_bboxes_single for image 1, used to
\* build the inputs of a direct call (points from the class-score sizes).
SingleArgs(slf, g) ==
    [cls_scores |-> [i \in 1..Len(g.cls_scores) |-> g.cls_scores[i][1]],
     bbox_preds |-> [i \in 1..Len(g.bbox_preds) |-> g.bbox_preds[i][1]],
     mask_preds |-> [i \in 1..Len(g.mask_preds) |-> g.mask_preds[i][1]],
     centernesses |-> [i \in 1..Len(g.centernesses) |->
                            g.centernesses[i][1]],
     mlvl_points |-> [i \in 1..Len(g.cls_scores) |->
                        get_points_single(size2(g.cls_scores[i][1]),
                                          slf.strides[i])],
     img_shape |-> g.img_metas[1].img_shape,
     scale_factor |-> g.img_metas[1].scale_factor,
     cfg |-> g.cfg, rescale |-> g.rescale]

DecodeHeads ==
    {__init__(Kwargs(4, f, 2, 2, m, FALSE, n, 2,
                     [i \in 1..MaxLevels |-> 2 * i])).val :
        f \in BOOLEAN, m \in BOOLEAN, n \in BOOLEAN}

\* Class logits vary on the first level of a one-image call.
DecodeCls(B, i) == IF B = 1 /\ i = 1 THEN {0, 2} ELSE {2}
DecodeCtr(i) == {0}

InitDecode ==
    /\ self \in DecodeHeads
    /\ call \in {"get_bboxes", "get_bboxes_single"}
    /\ \E counts \in LevelCounts, B \in {1, 2} :
        \E g \in GetBboxesArgs(self, B, counts,
                    [i \in 1..MaxLevels |-> DecodeCls(B, i)],
                    [i \in 1..MaxLevels |-> DecodeCtr(i)],
                    [i \in 1..MaxLevels |-> DecodeSize(i)],
                    TestCfgs, Rescales) :
            args = IF call = "get_bboxes" THEN g ELSE SingleArgs(self, g)
    /\ loc = NoLoc
    /\ pc = "call"
    /\ ret = NoRet

\* Orders in which topk may list equal values: every ranking of the indices
\* of the largest level.
TieOrders(n) == Permutations(1..n)
\* Points the IoU test of the NMS routine may suppress: none or all of them;
\* none when no sigmoid score can pass the threshold.
Suppressed(n, cfg) == IF cfg.score_thr >= Fx(1) THEN {{}} ELSE {{}, 1..n}
\* What the elements of an uninitialised tensor may hold.
Uninit(scale_factor) ==
    IF scale_factor.kind = "int" THEN {<<1, 3>>, <<3, 1>>} ELSE {<<1, 1>>}
\* What irfft(...).exp() may yield for a point at inference.
DecodedRow(slf) ==
    IF slf.use_fourier /\ irfft_len(slf, FALSE) >= 0
    THEN DistRows(irfft_len(slf, FALSE)) ELSE {<<>>}

MaxPoints(mlvl_points) ==
    SeqMax(<<1>> \o [i \in 1..Len(mlvl_points) |-> Len(mlvl_points[i])])

\* The call ends: its outcome o = [ret, loc] is what the state shows of it.
Finish(o) ==
    /\ ret' = o.ret
    /\ loc' = o.loc
    /\ pc' = IF Raised(o.ret) THEN "error" ELSE "done"

\* A direct get_bboxes_single call, recorded like the calls get_bboxes makes.
single_out(a, o) ==
    Out(o.ret, [single |-> <<[a |-> a, loc |-> o.loc, ret |-> o.ret]>>])

GetBboxesSingle ==
    /\ pc = "call"
    /\ call = "get_bboxes_single"
    /\ \E tie \in TieOrders(MaxPoints(args.mlvl_points)),
          dec \in DecodedRow(self),
          sup \in Suppressed(MaxLevels * MaxPerLevel, args.cfg),
          uninit \in Uninit(args.scale_factor) :
        Finish(single_out(args,
                    get_bboxes_single(self, args, tie, dec, sup, uninit)))
    /\ UNCHANGED <<self, call, args>>

GetBboxes ==
    /\ pc = "call"
    /\ call = "get_bboxes"
    /\ \E tie \in TieOrders(SeqMax(<<1>> \o [i \in 1..Len(args.cls_scores) |->
                    size2(args.cls_scores[i][1])[1]
                        * size2(args.cls_scores[i][1])[2]])),
          dec \in DecodedRow(self),
          sup \in Suppressed(MaxLevels * MaxPerLevel, args.cfg),
          uninit \in UNION {Uninit(args.img_metas[b].scale_factor) :
                                b \in 1..Len(args.img_metas)} :
        Finish(get_bboxes(self, args, tie, dec, sup, uninit))
    /\ UNCHANGED <<self, call, args>>

NextDecode == GetBboxes \/ GetBboxesSingle

SpecDecode == InitDecode /\ [][NextDecode]_vars

----------------------------------------------------------------------------
(* The pre-filter on one level: every choice of class logits, centerness   *)
(* logits alternating along the row.                                       *)

TopKHead ==
    __init__(Kwargs(4, FALSE, 2, 2, FALSE, FALSE, FALSE, 3,
                    [i \in 1..MaxLevels |-> 2 * i])).val
TopKSize(i) == <<1, MaxPerLevel>>
TopKCls(i) == {0, 2}
TopKCtr(i) == {-1, 1}
TopKCfgs == {[nms_pre |-> p, max_per_img |-> 3, score_thr |-> Fx(1)] :
                p \in -1..(MaxPerLevel + 1)}

InitTopK ==
    /\ self = TopKHead
    /\ call = "get_bboxes_single"
    /\ \E g \in GetBboxesArgs(self, 1, <<1, 1, 1, 1>>,
                    [i \in 1..MaxLevels |-> TopKCls(i)],
                    [i \in 1..MaxLevels |-> TopKCtr(i)],
                    [i \in 1..MaxLevels |-> TopKSize(i)],
                    TopKCfgs, {<<"True", PyFloat(2)>>}) :
            /\ \A w \in 1..MaxPerLevel :
                    g.centernesses[1][1][1][1][w] = 2 * (w % 2) - 1
            /\ args = SingleArgs(self, g)
    /\ loc = NoLoc
    /\ pc = "call"
    /\ ret = NoRet

NextTopK == GetBboxesSingle

SpecTopK == InitTopK /\ [][NextTopK]_vars

----------------------------------------------------------------------------
(* polar_target and loss (lines 220-423). *)

MaxImgs == 2        \* largest batch handed to loss

RECURSIVE SeqSum(_)
SeqSum(s) == IF s = <<>> THEN 0 ELSE Head(s) + SeqSum(Tail(s))

\* tensor.split(sizes, 0): consecutive chunks of the given sizes, which
\* must add up to the length of the tensor.
split(t, sizes) ==
    IF SeqSum(sizes) # Len(t) THEN Raise("RuntimeError")
    ELSE Return([i \in 1..Len(sizes) |->
            SubSeq(t, SeqSum(SubSeq(sizes, 1, i - 1)) + 1,
                   SeqSum(SubSeq(sizes, 1, i)))])

\* Lines 392-404: [t.split(num_points, 0) for t in t_list], one per image.
split_list(t_list, num_points) ==
    [b \in 1..Len(t_list) |-> split(t_list[b], num_points)]

\* A faulty concat_lvl: the images are taken in reverse order.
concat_lvl_reversed(splits, num_levels) ==
    [i \in 1..num_levels |->
        Flatten([b \in 1..Len(splits) |->
                    splits[Len(splits) + 1 - b].val[i]])]

\* Lines 411-421: for each level i, torch.cat([t[i] for t in t_list]).
concat_lvl(splits, num_levels) ==
    [i \in 1..num_levels |->
        Flatten([b \in 1..Len(splits) |-> splits[b].val[i]])]

\* Lines 406-423, given the four lists of per-image splits.
polar_target_concat(num_levels, labels, centerness, bbox, mask) ==
    IF \/ \E b \in DOMAIN labels : Raised(labels[b])
       \/ \E b \in DOMAIN centerness : Raised(centerness[b])
       \/ \E b \in DOMAIN bbox : Raised(bbox[b])
       \/ \E b \in DOMAIN mask : Raised(mask[b])
    THEN Raise("RuntimeError")
    ELSE Return(<<Tuple(concat_lvl(labels, num_levels)),
                  Tuple(concat_lvl(bbox, num_levels)),
                  Tuple(concat_lvl(mask, num_levels)),
                  Tuple(concat_lvl(centerness, num_levels))>>)

\* polar_target(points, extra_data): extra_data.values() are the lists of
\* labels, bbox targets, mask targets and centerness targets, one tensor
\* per image covering the points of all levels.  Returns, per level, the
\* (labels, bbox_targets, mask_targets, centerness_targets) of all images.
polar_target(slf, points, extra_data) ==
    IF Len(points) # Len(slf.regress_ranges) THEN Raise("AssertionError")
    ELSE polar_target_concat(Len(points),
            split_list(extra_data[1], [i \in 1..Len(points) |->
                                            Len(points[i])]),
            split_list(extra_data[4], [i \in 1..Len(points) |->
                                            Len(points[i])]),
            split_list(extra_data[2], [i \in 1..Len(points) |->
                                            Len(points[i])]),
            split_list(extra_data[3], [i \in 1..Len(points) |->
                                            Len(points[i])]))

\* t.permute(0, 2, 3, 1).reshape(-1, C) for t of shape [B, C, H, W]: one row
\* of C channels per (image, row, column), in that order.
permute_reshape4(t) ==
    Flatten([b \in 1..Len(t) |-> Tuple(permute_reshape(t[b]))])

\* .reshape(-1, num_coe, 2) of rows of 2 * num_coe channels.
coe_pairs(rows) ==
    [n \in 1..Len(rows) |->
        [c \in 1..(Len(rows[n]) \div 2) |->
            <<rows[n][2 * c - 1], rows[n][2 * c]>>]]

\* points.repeat(num_imgs, 1): the whole tensor num_imgs times over.
repeat(points, num_imgs) ==
    Flatten([b \in 1..num_imgs |-> points])

\* Lines 258-272, one level of the Fourier path decoded for the loss:
\* mask_pred is the reshaped prediction, points the repeated level points,
\* dec the row irfft(...).exp() yields.
fourier_level(slf, mask_pred, points, dec) ==
    IF slf.bbox_from_mask
    THEN LET r == distance2mask(slf, points, mask_pred, <<>>, TRUE, <<>>,
                                [n \in 1..Len(points) |-> dec])
         IN  IF Raised(r) THEN r
             ELSE Return([mask_pred |-> mask_pred, points |-> points,
                          b |-> Assigned(Tuple(extent(r.val[1]))),
                          m |-> r.val[2]])
    ELSE IF irfft_len(slf, TRUE) < 0 THEN Raise("RuntimeError")
         ELSE Return([mask_pred |-> mask_pred, points |-> points,
                      b |-> Unassigned,
                      m |-> [n \in 1..Len(mask_pred) |-> dec]])

\* Lines 249-278: flatten_mask_preds, as the list of per-level tensors,
\* with the per-level records of the decoding path (lv) when it is taken.
flatten_mask_preds(slf, mask_preds, lv) ==
    IF slf.use_fourier
    THEN IF slf.loss_on_coe
         THEN [i \in 1..Len(mask_preds) |->
                    Tuple(coe_pairs(permute_reshape4(mask_preds[i])))]
         ELSE [i \in 1..Len(lv) |-> lv[i].val.m]
    ELSE [i \in 1..Len(mask_preds) |-> permute_reshape4(mask_preds[i])]

\* Lines 256-283: flatten_bbox_preds, assigned on two branches only.
flatten_bbox_preds(slf, bbox_preds, lv) ==
    IF ~slf.bbox_from_mask
    THEN Assigned([i \in 1..Len(bbox_preds) |->
                        permute_reshape4(bbox_preds[i])])
    ELSE IF slf.use_fourier /\ ~slf.loss_on_coe
    THEN Assigned([i \in 1..Len(lv) |-> lv[i].val.b[1]])
    ELSE Unassigned

\* flatten_labels.nonzero().reshape(-1): the indices of the non-zero
\* entries, ascending.
nonzero(v) ==
    LET S == {i \in DOMAIN v : v[i] # 0}
    IN  [j \in 1..Cardinality(S) |->
            CHOOSE i \in S : Cardinality({k \in S : k < i}) = j - 1]

RECURSIVE tensor_sum(_, _)
\* t.sum() for a tensor of the given rank.
tensor_sum(t, rank) ==
    IF rank = 0 THEN t
    ELSE IF t = <<>> THEN 0
    ELSE tensor_sum(Head(t), rank - 1) + tensor_sum(Tail(t), rank)

\* What loss returns for each of its four entries: the call of one of the
\* configured loss functions self.loss_cls / loss_bbox / loss_mask /
\* loss_centerness with its arguments (weight and avg_factor are <<>> when
\* not passed; rfft tells that the target went through torch.rfft and was
\* cut to num_coe coefficients), or the sum of a tensor.
LossCall(fn, pred, target, weight, avg_factor, rfft) ==
    [fn |-> fn, pred |-> pred, target |-> target, weight |-> weight,
     avg_factor |-> avg_factor, rfft |-> rfft, value |-> <<>>]
SumOf(t, rank) ==
    [fn |-> "sum", pred |-> t, target |-> <<>>, weight |-> <<>>,
     avg_factor |-> <<>>, rfft |-> FALSE, value |-> <<tensor_sum(t, rank)>>]

NoLossLocals ==
    [all_level_points |-> <<>>, num_imgs |-> 0, decode |-> <<>>,
     flatten_cls_scores |-> Unassigned, flatten_bbox_preds |-> Unassigned,
     flatten_mask_preds |-> Unassigned, flatten_centerness |-> Unassigned,
     flatten_labels |-> Unassigned,
     flatten_centerness_targets |-> Unassigned,
     flatten_bbox_targets |-> Unassigned,
     flatten_mask_targets |-> Unassigned, flatten_points |-> Unassigned,
     pos_inds |-> Unassigned]

\* Lines 306-346, on the selected rows.
loss_pos(slf, l, loss_cls, pos_inds, pos_bbox_preds, pos_centerness, pos_mask_preds, pos_bbox_targets, pos_mask_targets, pos_centerness_targets, pos_points) ==
    Out(Return(
        IF Len(pos_inds) > 0
        THEN [loss_cls |-> loss_cls,
              loss_bbox |-> LossCall("loss_bbox",
                    IF slf.bbox_from_mask THEN pos_bbox_preds
                    ELSE Tuple(distance2bbox(pos_points, pos_bbox_preds,
                                             <<>>)),
                    Tuple(distance2bbox(pos_points, pos_bbox_targets, <<>>)),
                    <<pos_centerness_targets>>,
                    <<tensor_sum(pos_centerness_targets, 1)>>, FALSE),
              loss_mask |->
                    IF slf.loss_on_coe
                    THEN LossCall("loss_mask", pos_mask_preds,
                                  pos_mask_targets, <<>>, <<>>, TRUE)
                    ELSE LossCall("loss_mask", pos_mask_preds,
                            pos_mask_targets, <<pos_centerness_targets>>,
                            <<tensor_sum(pos_centerness_targets, 1)>>,
                            FALSE),
              loss_centerness |-> LossCall("loss_centerness",
                    pos_centerness, pos_centerness_targets, <<>>, <<>>,
                    FALSE)]
        ELSE [loss_cls |-> loss_cls,
              loss_bbox |-> SumOf(pos_bbox_preds, 2),
              loss_mask |-> SumOf(pos_mask_preds,
                    IF slf.use_fourier /\ slf.loss_on_coe THEN 3 ELSE 2),
              loss_centerness |-> SumOf(pos_centerness, 1)]),
        [l EXCEPT !.pos_inds = Assigned(pos_inds)])

\* Lines 296-304: the positive points and the classification loss.
loss_select(slf, l, pos_inds) ==
    loss_pos(slf, l,
        LossCall("loss_cls", l.flatten_cls_scores[1], l.flatten_labels[1],
                 <<>>, <<Len(pos_inds) + l.num_imgs>>, FALSE),
        pos_inds,
        Tuple(Gather(l.flatten_bbox_preds[1], pos_inds)),
        Tuple(Gather(l.flatten_centerness[1], pos_inds)),
        Tuple(Gather(l.flatten_mask_preds[1], pos_inds)),
        Tuple(Gather(l.flatten_bbox_targets[1], pos_inds)),
        Tuple(Gather(l.flatten_mask_targets[1], pos_inds)),
        Tuple(Gather(l.flatten_centerness_targets[1], pos_inds)),
        Tuple(Gather(l.flatten_points[1], pos_inds)))

\* Lines 285-295: the concatenations.  fb is flatten_bbox_preds as the
\* branches left it; reading it unassigned at line 286 raises NameError.
loss_flat(slf, points, num_imgs, lv, cls, fb, mask, ctr, tg) ==
    IF fb = Unassigned
    THEN Out(Raise("NameError"),
             [NoLossLocals EXCEPT !.all_level_points = points,
                                  !.num_imgs = num_imgs,
                                  !.decode = lv,
                                  !.flatten_cls_scores = Assigned(cls)])
    ELSE loss_select(slf,
            [all_level_points |-> points, num_imgs |-> num_imgs,
             decode |-> lv,
             flatten_cls_scores |-> Assigned(cls),
             flatten_bbox_preds |-> Assigned(Flatten(fb[1])),
             flatten_mask_preds |-> Assigned(mask),
             flatten_centerness |-> Assigned(ctr),
             flatten_labels |-> Assigned(Flatten(tg[1])),
             flatten_centerness_targets |-> Assigned(Flatten(tg[4])),
             flatten_bbox_targets |-> Assigned(Flatten(tg[2])),
             flatten_mask_targets |-> Assigned(Flatten(tg[3])),
             flatten_points |-> Assigned(Flatten(
                    [i \in 1..Len(points) |-> repeat(points[i], num_imgs)])),
             pos_inds |-> Unassigned],
            Tuple(nonzero(Flatten(tg[1]))))

\* Lines 241-283, once the decoding loop of lines 258-272 has given lv.
loss_decoded(slf, a, points, tg, num_imgs, lv) ==
    IF \E i \in DOMAIN lv : Raised(lv[i])
    THEN Out(lv[CHOOSE i \in DOMAIN lv :
                    Raised(lv[i]) /\ \A j \in 1..(i - 1) : ~Raised(lv[j])],
             NoLossLocals)
    ELSE loss_flat(slf, points, num_imgs, lv,
            Flatten([i \in 1..Len(a.cls_scores) |->
                        permute_reshape4(a.cls_scores[i])]),
            flatten_bbox_preds(slf, a.bbox_preds, lv),
            Flatten(flatten_mask_preds(slf, a.mask_preds, lv)),
            Flatten([i \in 1..Len(a.centernesses) |->
                [n \in 1..Len(permute_reshape4(a.centernesses[i])) |->
                    permute_reshape4(a.centernesses[i])[n][1]]]),
            tg)

\* Lines 237-272: tg is what polar_target gave.
loss_targets(slf, a, points, tg, num_imgs, dec) ==
    IF Raised(tg) THEN Out(tg, NoLossLocals)
    ELSE loss_decoded(slf, a, points, tg.val, num_imgs,
            IF slf.use_fourier /\ ~slf.loss_on_coe
            THEN Tuple([i \in 1..Min(Len(a.mask_preds), Len(points)) |->
                    fourier_level(slf,
                        Tuple(coe_pairs(permute_reshape4(a.mask_preds[i]))),
                        Tuple(repeat(points[i], num_imgs)), dec)])
            ELSE <<>>)

loss_points(slf, a, pts, dec) ==
    IF Raised(pts) THEN Out(pts, NoLossLocals)
    ELSE loss_targets(slf, a, Tuple(pts.val),
                      polar_target(slf, pts.val, a.extra_data),
                      Len(a.cls_scores[1]), dec)

\* loss(cls_scores, bbox_preds, centernesses, mask_preds, ..., extra_data):
\* per-level tensors t[b][c][h][w].  dec is the row irfft(...).exp() yields.
loss(slf, a, dec) ==
    IF ~(Len(a.cls_scores) = Len(a.bbox_preds)
            /\ Len(a.bbox_preds) = Len(a.centernesses)
            /\ Len(a.centernesses) = Len(a.mask_preds))
    THEN Out(Raise("AssertionError"), NoLossLocals)
    ELSE IF Len(a.bbox_preds) = 0
    THEN Out(Raise("IndexError"), NoLossLocals)
    ELSE loss_points(slf, a,
            get_points(slf.strides, [i \in 1..Len(a.cls_scores) |->
                                        size2(a.cls_scores[i][1])]),
            dec)

----------------------------------------------------------------------------
(* Training: inputs and the action. *)

\* Cell values that tell the tensor (t), level, image, channel, row and
\* column of their cell apart.
Tag(t, i, b, c, h, w) ==
    t * 100000 + i * 10000 + b * 1000 + c * 100 + h * 10 + w

\* The [B, ch, H, W] tensor t of level i.
tagged(t, i, B, ch, size) ==
    [b \in 1..B |-> [c \in 1..ch |-> [h \in 1..size[1] |->
        [w \in 1..size[2] |-> Tag(t, i, b, c, h, w)]]]]

\* Feature-map sizes of the levels, finest first.
LossSizes ==
    {[i \in 1..MaxLevels |-> IF i = 1 THEN <<1, 2>> ELSE <<1, 1>>],
     [i \in 1..MaxLevels |-> IF i = 1 THEN <<2, 1>> ELSE <<1, 1>>],
     [i \in 1..MaxLevels |-> IF i = 1 THEN <<2, 2>> ELSE <<1, 2>>]}

\* Numbers of levels of (cls_scores, bbox_preds, centernesses, mask_preds).
LossLevelCounts ==
    {<<n, n, n, n>> : n \in 0..MaxLevels}
        \cup {<<2, 2, 1, 2>>, <<1, 1, 1, 2>>, <<2, 1, 2, 2>>}

\* Labels of the P points of an image: none positive, all positive, every
\* other one positive, only the last one positive.
LabelPatterns == {"zero", "one", "alt", "last"}
label(pat, p, P) ==
    CASE pat = "zero" -> 0
      [] pat = "one" -> 1
      [] pat = "alt" -> p % 2
      [] pat = "last" -> IF p = P THEN 2 ELSE 0

\* extra_data.values() for B images of P points each.
ExtraData(slf, B, P, pats) ==
    <<[b \in 1..B |-> [p \in 1..P |-> label(pats[b], p, P)]],
      [b \in 1..B |-> [p \in 1..P |->
            [j \in 1..4 |-> Tag(5, 0, b, 0, p, j)]]],
      [b \in 1..B |-> [p \in 1..P |->
            [k \in 1..slf.contour_points |-> Tag(6, 0, b, 0, p, k)]]],
      [b \in 1..B |-> [p \in 1..P |-> Tag(7, 0, b, 0, p, 0)]]>>

LossArgs(slf, B, counts, sz, pats) ==
    [cls_scores |-> [i \in 1..counts[1] |->
                        tagged(1, i, B, slf.cls_out_channels, sz[i])],
     bbox_preds |-> [i \in 1..counts[2] |-> tagged(2, i, B, 4, sz[i])],
     centernesses |-> [i \in 1..counts[3] |-> tagged(3, i, B, 1, sz[i])],
     mask_preds |-> [i \in 1..counts[4] |->
                        tagged(4, i, B, mask_channels(slf), sz[i])],
     extra_data |-> ExtraData(slf, B,
                        SeqSum([i \in 1..counts[1] |-> sz[i][1] * sz[i][2]]),
                        pats)]

LossHeads ==
    {__init__(Kwargs(4, f, 2, 2, m, c, FALSE, 3,
                     [i \in 1..n |-> 2 * i])).val :
        f \in BOOLEAN, m \in BOOLEAN, c \in BOOLEAN, n \in 1..MaxLevels}

InitLoss ==
    /\ self \in LossHeads
    /\ call = "loss"
    /\ \E counts \in LossLevelCounts, B \in 1..MaxImgs, sz \in LossSizes :
        \E pats \in [1..B -> LabelPatterns] :
            args = LossArgs(self, B, counts, sz, pats)
    /\ loc = NoLoc
    /\ pc = "call"
    /\ ret = NoRet

Loss ==
    /\ pc = "call"
    /\ call = "loss"
    /\ \E dec \in (IF self.use_fourier /\ irfft_len(self, TRUE) >= 0
                   THEN DistRows(irfft_len(self, TRUE)) ELSE {<<>>}) :
        Finish(loss(self, args, dec))
    /\ UNCHANGED <<self, call, args>>

NextLoss == Loss

SpecLoss == InitLoss /\ [][NextLoss]_vars

----------------------------------------------------------------------------
(* polar_centerness_target (lines 425-428).                                *)
(* Ray distances are integers; the quotient min / max and its square root  *)
(* are fixed-point numbers in thousandths, rounded down.  A NaN is <<>>,   *)
(* a number v is <<v>>.                                                    *)

MaxRays == 3        \* most ray distances in a target vector
MaxDist == 3        \* largest ray distance in a target vector

\* torch.sqrt of q / 1000000, in thousandths.
sqrt(q) == CHOOSE r \in 0..q : r * r <= q /\ (r + 1) * (r + 1) > q

\* A faulty polar_centerness_target: the quotient is taken upside down.
polar_centerness_target_inverted(pos_mask_targets) ==
    [n \in 1..Len(pos_mask_targets) |->
        IF SeqMin(pos_mask_targets[n]) = 0 THEN <<>>
        ELSE <<sqrt((SeqMax(pos_mask_targets[n]) * Fx(Fx(1)))
                        \div SeqMin(pos_mask_targets[n]))>>]

\* centerness_targets = pos_mask_targets.min(dim=-1)[0]
\*                          / pos_mask_targets.max(dim=-1)[0]
\* return torch.sqrt(centerness_targets)
\* for a [n, K] tensor of targets that are >= 0; 0 / 0 is NaN.
polar_centerness_target(pos_mask_targets) ==
    [n \in 1..Len(pos_mask_targets) |->
        IF SeqMax(pos_mask_targets[n]) = 0 THEN <<>>
        ELSE <<sqrt((SeqMin(pos_mask_targets[n]) * Fx(Fx(1)))
                        \div SeqMax(pos_mask_targets[n]))>>]

\* [n, K] tensors of ray-distance targets, 1 <= K <= MaxRays: no row, one
\* row of any distances, or such a row followed by a row of equal distances.
TargetTensors ==
    {<<>>} \cup UNION {
        {<<r>> : r \in [1..K -> 0..MaxDist]}
        \cup {<<r, [k \in 1..K |-> d]>> :
                    r \in [1..K -> 0..MaxDist], d \in 0..MaxDist}
        : K \in 1..MaxRays}

InitCenterness ==
    /\ self = NoSelf
    /\ call = "polar_centerness_target"
    /\ \E t \in TargetTensors : args = [pos_mask_targets |-> t]
    /\ loc = NoLoc
    /\ pc = "call"
    /\ ret = NoRet

PolarCenternessTarget ==
    /\ pc = "call"
    /\ call = "polar_centerness_target"
    /\ Finish(Out(Return(polar_centerness_target(args.pos_mask_targets)),
                  NoLoc))
    /\ UNCHANGED <<self, call, args>>

NextCenterness == PolarCenternessTarget

SpecCenterness == InitCenterness /\ [][NextCenterness]_vars

----------------------------------------------------------------------------
(* What the properties of the decoder read. *)

\* The get_bboxes_single calls of the finished call, in order.
Singles ==
    IF call \in {"get_bboxes", "get_bboxes_single"} /\ pc # "call"
    THEN loc.single ELSE <<>>

\* The flattened, activated inputs of level i of call s, before the
\* pre-filter.
Scores0(s, i) ==
    Tuple([n \in 1..Len(permute_reshape(s.a.cls_scores[i])) |->
        Tuple([c \in 1..Len(s.a.cls_scores[i]) |->
            sigmoid(permute_reshape(s.a.cls_scores[i])[n][c])])])
Centerness0(s, i) ==
    Tuple([n \in 1..Len(permute_reshape(s.a.centernesses[i])) |->
        sigmoid(permute_reshape(s.a.centernesses[i])[n][1])])
\* max over classes of (class score * centerness), per point.
Fused(scores, centerness) ==
    Tuple([n \in DOMAIN scores |->
        SeqMax([c \in DOMAIN scores[n] |-> scores[n][c] * centerness[n]])])
Fused0(s, i) == Fused(Scores0(s, i), Centerness0(s, i))

\* The pre-filter of one level: lv is what the loop kept of the original
\* tensors points, bbox_pred, mask_pred, scores, centerness (fused: the
\* fused score of each original point) under nms_pre = k; inds names the
\* original point of each kept row.
PrefilterOk(lv, k, points, bbox_pred, mask_pred, scores, centerness, fused, inds) ==
    LET N == Len(scores)
        kept == {inds[j] : j \in DOMAIN inds}
    IN  /\ Len(lv.points) = (IF 0 < k /\ k < N THEN k ELSE N)
        /\ Len(inds) = Len(lv.points)
        /\ kept \subseteq 1..N
        /\ Cardinality(kept) = Len(inds)
        /\ \A n \in kept, d \in (1..N) \ kept : fused[n] >= fused[d]
        /\ ~(0 < k /\ k < N) => kept = 1..N
        /\ lv.points = [j \in DOMAIN inds |-> points[inds[j]]]
        /\ lv.bbox_pred = [j \in DOMAIN inds |-> bbox_pred[inds[j]]]
        /\ lv.mask_pred = [j \in DOMAIN inds |-> mask_pred[inds[j]]]
        /\ lv.scores = [j \in DOMAIN inds |-> scores[inds[j]]]
        /\ lv.centerness = [j \in DOMAIN inds |-> centerness[inds[j]]]

(* C2: for each level of a get_bboxes_single call with N candidate points: *)
(* if 0 < nms_pre < N exactly nms_pre points are kept, they are distinct   *)
(* points of the level, and every kept point has a fused score             *)
(* max_c(sigmoid(cls) * sigmoid(centerness)) >= that of every dropped      *)
(* point; otherwise all N are kept.  Row j of points, bbox_pred,           *)
(* mask_pred, scores and centerness is the row of the same original point. *)
C2_TopKPrefilter ==
    \A q \in DOMAIN Singles : \A i \in DOMAIN Singles[q].loc.levels :
        PrefilterOk(Singles[q].loc.levels[i], Singles[q].a.cfg.nms_pre,
            Singles[q].a.mlvl_points[i],
            Tuple(permute_reshape(Singles[q].a.bbox_preds[i])),
            Tuple(permute_reshape(Singles[q].a.mask_preds[i])),
            Scores0(Singles[q], i), Centerness0(Singles[q], i),
            Fused0(Singles[q], i),
            IF Singles[q].loc.levels[i].filtered
            THEN Singles[q].loc.levels[i].topk_inds
            ELSE [n \in 1..Singles[q].loc.levels[i].n |-> n])

\* C2 witness: a level of three points cut to two, the dropped point
\* strictly below both kept ones, the kept rows not in their original order.
C2_Witness ==
    \E q \in DOMAIN Singles : \E i \in DOMAIN Singles[q].loc.levels :
        LET s == Singles[q]
            lv == s.loc.levels[i]
        IN  /\ lv.n = 3 /\ s.a.cfg.nms_pre = 2 /\ lv.filtered
            /\ Len(lv.points) = 2
            /\ lv.topk_inds[1] > lv.topk_inds[2]
            /\ \E d \in 1..3 : /\ d \notin {lv.topk_inds[1], lv.topk_inds[2]}
                               /\ Fused0(s, i)[d]
                                    < Fused0(s, i)[lv.topk_inds[2]]

----------------------------------------------------------------------------
(* C1 (as amended): a completed get_points returns one point set per level, *)
(* in level order; for a level of height h >= 1, width w >= 1 and stride   *)
(* s = strides[i] the set has h*w points and the point at row r, column c  *)
(* is entry r*w + c (row-major) and equals                                 *)
(* (s*c + floor(s/2), s*r + floor(s/2)).                                   *)
C1_PointsFloorHalf ==
    (call = "get_points" /\ pc = "done") =>
        /\ Len(ret.val) = Len(args.featmap_sizes)
        /\ \A i \in 1..Len(ret.val) :
            LET h == args.featmap_sizes[i][1]
                w == args.featmap_sizes[i][2]
                s == self.strides[i]
            IN  (h >= 1 /\ w >= 1) =>
                    /\ Len(ret.val[i]) = h * w
                    /\ \A r \in 0..(h - 1), c \in 0..(w - 1) :
                        ret.val[i][r * w + c + 1] =
                            <<s * c + (s \div 2), s * r + (s \div 2)>>

\* C1 witness: two levels done, one of them 2 x 2 with an odd stride.
C1_Witness ==
    /\ call = "get_points" /\ pc = "done"
    /\ Len(ret.val) = 2
    /\ \E i \in 1..2 : /\ args.featmap_sizes[i] = <<2, 2>>
                       /\ self.strides[i] = 3
                       /\ Len(ret.val[i]) = 4

(* C1 (as stated): the point at row r, column c is (s*c + s/2, s*r + s/2)  *)
(* with the exact half stride; compared after doubling both sides.         *)
C1_PointsExactHalf ==
    (call = "get_points" /\ pc = "done") =>
        /\ Len(ret.val) = Len(args.featmap_sizes)
        /\ \A i \in 1..Len(ret.val) :
            LET h == args.featmap_sizes[i][1]
                w == args.featmap_sizes[i][2]
                s == self.strides[i]
            IN  (h >= 1 /\ w >= 1) =>
                    /\ Len(ret.val[i]) = h * w
                    /\ \A r \in 0..(h - 1), c \in 0..(w - 1) :
                        /\ 2 * ret.val[i][r * w + c + 1][1] = 2 * s * c + s
                        /\ 2 * ret.val[i][r * w + c + 1][2] = 2 * s * r + s

----------------------------------------------------------------------------
(* C5 (as stated): for every contour_points K >= 1 the constructor builds  *)
(* an angle table of exactly K entries, entry i being (i-1) * 360/K        *)
(* degrees (compared after multiplying by K) and below 360, and a          *)
(* distance2mask call on K ray distances per point pairs them one-to-one   *)
(* with the angles: it completes with K vertices per polygon.              *)
C5_AngleTableUniform ==
    /\ (call = "__init__" /\ pc # "call") =>
        /\ pc = "done"
        /\ Len(self.angles) = args.contour_points
        /\ \A i \in 1..Len(self.angles) :
            /\ self.angles[i] * args.contour_points = (i - 1) * 360
            /\ self.angles[i] < 360
    /\ (call = "distance2mask" /\ ~self.use_fourier) =>
        /\ pc = "done"
        /\ \A n \in 1..Len(args.points) :
            /\ Len(ret.val[1][n][1]) = self.contour_points
            /\ Len(ret.val[1][n][2]) = self.contour_points

----------------------------------------------------------------------------
(* Properties of get_bboxes / get_bboxes_single. *)

\* Numbers of levels of the four prediction lists of the call.
LevelLens ==
    <<Len(args.cls_scores), Len(args.bbox_preds), Len(args.centernesses),
      Len(args.mask_preds)>>

(* C3 (as stated): a get_bboxes or get_bboxes_single call whose class, box, *)
(* centerness and mask prediction lists do not all have the same number of *)
(* levels fails with an error before any computation: no level is decoded  *)
(* and no detections are returned.                                         *)
C3_LevelCountsRejected ==
    (call \in {"get_bboxes", "get_bboxes_single"} /\ pc # "call"
        /\ \E i, j \in 1..4 : LevelLens[i] # LevelLens[j]) =>
            /\ pc = "error"
            /\ \A q \in DOMAIN Singles : Singles[q].loc.levels = <<>>

(* C7 (as stated): for every combination of use_fourier, bbox_from_mask,   *)
(* mask_nms and rescale (True, False or None), a get_bboxes_single call on *)
(* well-shaped inputs (equal level counts, a float or 4-vector scale       *)
(* factor) never fails with a NameError for a local that was never         *)
(* assigned.                                                               *)
C7_NoUnassignedLocal ==
    \A q \in DOMAIN Singles :
        (/\ \A i, j \in 1..4 : LevelLens[i] = LevelLens[j]
         /\ Singles[q].a.scale_factor.kind # "int") =>
            Singles[q].ret.exc # "NameError"

(* C8: the number of detections get_bboxes_single returns for one image    *)
(* never exceeds cfg.max_per_img, with any number of levels and of points  *)
(* kept by the pre-filter and either mask_nms setting: the NMS routine is  *)
(* called with max_num = cfg.max_per_img and its three outputs are         *)
(* returned as they are.                                                   *)
C8_MaxPerImg ==
    \A q \in DOMAIN Singles :
        ~Raised(Singles[q].ret) /\ Singles[q].ret # NoRet =>
            /\ Len(Singles[q].ret.val[1]) <= Singles[q].a.cfg.max_per_img
            /\ Len(Singles[q].ret.val[2]) = Len(Singles[q].ret.val[1])
            /\ Len(Singles[q].ret.val[3]) = Len(Singles[q].ret.val[1])
            /\ Singles[q].loc.nms # Unassigned
            /\ Singles[q].loc.nms[1].max_num = Singles[q].a.cfg.max_per_img

\* C8 witness: two levels, mask_nms set, more survivors of NMS than
\* max_per_img, and exactly max_per_img detections returned.
C8_Witness ==
    \E q \in DOMAIN Singles :
        /\ ~Raised(Singles[q].ret)
        /\ self.mask_nms
        /\ Len(Singles[q].loc.levels) = 2
        /\ Singles[q].loc.nms_survivors > Singles[q].a.cfg.max_per_img
        /\ Len(Singles[q].ret.val[1]) = Singles[q].a.cfg.max_per_img

\* b is the axis-aligned extent (min x, min y, max x, max y) of polygon m.
IsExtent(b, m) ==
    /\ \E k \in DOMAIN m[1] : b[1] = m[1][k]
    /\ \E k \in DOMAIN m[2] : b[2] = m[2][k]
    /\ \E k \in DOMAIN m[1] : b[3] = m[1][k]
    /\ \E k \in DOMAIN m[2] : b[4] = m[2][k]
    /\ \A k \in DOMAIN m[1] : QLe(b[1], m[1][k]) /\ QLe(m[1][k], b[3])
    /\ \A k \in DOMAIN m[2] : QLe(b[2], m[2][k]) /\ QLe(m[2][k], b[4])

\* c: the arguments of the NMS call; rb, rm: the rescaled boxes and
\* polygons; m: the polygons before rescaling; scores, centerness: the
\* activations of the kept points, levels concatenated.
NmsInputsOk(slf, c, rb, rm, m, scores, centerness) ==
    /\ Len(c.bboxes) = Len(scores)
    /\ Len(c.scores) = Len(scores)
    /\ Len(c.masks) = Len(scores)
    /\ Len(c.score_factors) = Len(scores)
    /\ Len(centerness) = Len(scores)
    /\ \A n \in 1..Len(scores) :
        /\ IF slf.mask_nms THEN IsExtent(c.bboxes[n], rm[n])
                           ELSE c.bboxes[n] = rb[n]
        /\ c.scores[n] = <<0>> \o scores[n]
        /\ c.masks[n] = rm[n]
        /\ \A ax \in 1..2 : \A k \in DOMAIN rm[n][ax] :
                rm[n][ax][k][1] = m[n][ax][k]
        /\ c.score_factors[n] = centerness[n] + slf.centerness_factor

(* C9: whenever get_bboxes_single calls the NMS routine, point n is handed *)
(* over with: as box the extent (min x, min y, max x, max y) of its        *)
(* rescaled polygon when mask_nms is set, its rescaled predicted box       *)
(* otherwise; as scores its per-class sigmoid scores behind one zero       *)
(* column; as payload its rescaled polygon; as score factor its sigmoid    *)
(* centerness plus centerness_factor.                                      *)
C9_NmsInputs ==
    \A q \in DOMAIN Singles :
        Singles[q].loc.nms # Unassigned =>
            NmsInputsOk(self, Singles[q].loc.nms[1],
                Singles[q].loc.r_mlvl_bboxes[1],
                Singles[q].loc.r_mlvl_masks[1],
                Singles[q].loc.mlvl_masks[1],
                Flatten([i \in DOMAIN Singles[q].loc.levels |->
                            Singles[q].loc.levels[i].scores]),
                Flatten([i \in DOMAIN Singles[q].loc.levels |->
                            Singles[q].loc.levels[i].centerness]))

\* C9 witness: an NMS call with mask_nms set on three points of two levels,
\* rescaled by a per-axis factor, where the extent of the first polygon is
\* not the rescaled predicted box.
C9_Witness ==
    \E q \in DOMAIN Singles :
        /\ Singles[q].loc.nms # Unassigned
        /\ self.mask_nms /\ ~self.bbox_from_mask
        /\ Singles[q].a.scale_factor.kind = "array"
        /\ Len(Singles[q].loc.nms[1].bboxes) = 3
        /\ Len(Singles[q].loc.levels) = 2
        /\ Singles[q].loc.nms[1].bboxes[1]
                # Singles[q].loc.r_mlvl_bboxes[1][1]

\* The quotient p = <<numerator, denominator>> equals x / d.
QIs(p, x, d) == p[1] * d = x * p[2]

(* C10 (as stated): when rescale is requested and the call gets past the   *)
(* rescaling, every box coordinate and every polygon coordinate has been   *)
(* divided by the scale factor of the image: all by the scalar for a       *)
(* scalar factor; for a per-axis factor box coordinate j by entry j and    *)
(* polygon x by the x entry, polygon y by the y entry.                     *)
C10_RescaleByShape ==
    \A q \in DOMAIN Singles :
        (Singles[q].a.rescale = "True"
            /\ Singles[q].loc.r_mlvl_masks # Unassigned) =>
            LET sf == Singles[q].a.scale_factor
                by(j) == IF sf.kind = "array" THEN sf.v[j] ELSE sf.v[1]
                l == Singles[q].loc
            IN  /\ \A n \in DOMAIN l.r_mlvl_bboxes[1] : \A j \in 1..4 :
                        QIs(l.r_mlvl_bboxes[1][n][j],
                            l.mlvl_bboxes[1][n][j], by(j))
                /\ \A n \in DOMAIN l.r_mlvl_masks[1] : \A ax \in 1..2 :
                    \A k \in DOMAIN l.r_mlvl_masks[1][n][ax] :
                        QIs(l.r_mlvl_masks[1][n][ax][k],
                            l.mlvl_masks[1][n][ax][k], by(ax))

----------------------------------------------------------------------------
(* Properties of loss. *)

\* The loss call has valid inputs: the four lists have one tensor for each
\* of the head's levels.
LossInputsValid ==
    /\ call = "loss"
    /\ \A i, j \in 1..4 : LevelLens[i] = LevelLens[j]
    /\ Len(args.cls_scores) = Len(self.strides)

(* C4 (as stated): a loss call on valid inputs whose labels are all 0      *)
(* raises no error; loss_bbox, loss_mask and loss_centerness are each the  *)
(* sum of an empty selection, zero, and none of the bbox, mask and         *)
(* centerness loss functions is called; loss_cls is computed by the        *)
(* classification loss over all points with avg_factor = num_imgs >= 1.    *)
C4_ZeroPositives ==
    (LossInputsValid /\ pc # "call"
        /\ \A b \in DOMAIN args.extra_data[1] :
            \A p \in DOMAIN args.extra_data[1][b] :
                args.extra_data[1][b][p] = 0) =>
        /\ pc = "done"
        /\ \A f \in {"loss_bbox", "loss_mask", "loss_centerness"} :
            /\ ret.val[f].fn = "sum"
            /\ ret.val[f].pred = <<>>
            /\ ret.val[f].value = <<0>>
        /\ ret.val.loss_cls.fn = "loss_cls"
        /\ Len(ret.val.loss_cls.pred)
                = SeqSum([b \in DOMAIN args.extra_data[1] |->
                            Len(args.extra_data[1][b])])
        /\ ret.val.loss_cls.avg_factor = <<Len(args.cls_scores[1])>>
        /\ Len(args.cls_scores[1]) >= 1

\* Number of rows the levels before level l take in a flattened tensor, and
\* number of points the levels before level l take in a per-image target.
RowsBefore(l) ==
    SeqSum([i \in 1..(l - 1) |->
        Len(args.cls_scores[i]) * size2(args.cls_scores[i][1])[1]
            * size2(args.cls_scores[i][1])[2]])
PointsBefore(l) ==
    SeqSum([i \in 1..(l - 1) |->
        size2(args.cls_scores[i][1])[1] * size2(args.cls_scores[i][1])[2]])

\* Row i = RowsBefore(l) + r of the flattened tensors is level l, image b,
\* grid cell (h, w), with r = (b-1)*H*W + (h-1)*W + w the row within the
\* level and p = (h-1)*W + w the point within the image.
AlignedAt(l, b, h, w, W, r, p, i) ==
    /\ \A c \in DOMAIN args.cls_scores[l][b] :
        loc.flatten_cls_scores[1][i][c] = args.cls_scores[l][b][c][h][w]
    /\ loc.flatten_centerness[1][i] = args.centernesses[l][b][1][h][w]
    /\ IF ~self.bbox_from_mask
       THEN \A j \in 1..4 :
                loc.flatten_bbox_preds[1][i][j] = args.bbox_preds[l][b][j][h][w]
       ELSE loc.flatten_bbox_preds[1][i] = loc.decode[l].val.b[1][r]
    /\ IF ~self.use_fourier
       THEN \A k \in DOMAIN args.mask_preds[l][b] :
                loc.flatten_mask_preds[1][i][k] = args.mask_preds[l][b][k][h][w]
       ELSE IF self.loss_on_coe
       THEN \A c \in 1..self.num_coe :
                loc.flatten_mask_preds[1][i][c]
                    = <<args.mask_preds[l][b][2 * c - 1][h][w],
                        args.mask_preds[l][b][2 * c][h][w]>>
       ELSE /\ loc.flatten_mask_preds[1][i] = loc.decode[l].val.m[r]
            /\ loc.decode[l].val.points[r] = loc.flatten_points[1][i]
            /\ \A c \in 1..self.num_coe :
                loc.decode[l].val.mask_pred[r][c]
                    = <<args.mask_preds[l][b][2 * c - 1][h][w],
                        args.mask_preds[l][b][2 * c][h][w]>>
    /\ loc.flatten_labels[1][i] = args.extra_data[1][b][PointsBefore(l) + p]
    /\ loc.flatten_bbox_targets[1][i]
            = args.extra_data[2][b][PointsBefore(l) + p]
    /\ loc.flatten_mask_targets[1][i]
            = args.extra_data[3][b][PointsBefore(l) + p]
    /\ loc.flatten_centerness_targets[1][i]
            = args.extra_data[4][b][PointsBefore(l) + p]
    /\ loc.flatten_points[1][i] = loc.all_level_points[l][p]
    /\ loc.all_level_points[l][p]
            = <<self.strides[l] * (w - 1) + (self.strides[l] \div 2),
                self.strides[l] * (h - 1) + (self.strides[l] \div 2)>>

(* C6: once loss has flattened its tensors, row i of the flattened class   *)
(* scores, bbox, mask and centerness predictions, of the flattened labels, *)
(* bbox, mask and centerness targets and of flatten_points all belong to   *)
(* the same (level, image, point): levels in input order, within a level   *)
(* the images in batch order, within an image the points in the row-major  *)
(* grid order of get_points; and every flattened tensor has one row per    *)
(* (level, image, point).                                                  *)
C6_FlattenAligned ==
    (call = "loss" /\ loc # NoLoc /\ loc.flatten_points # Unassigned) =>
        /\ \A t \in {"flatten_cls_scores", "flatten_bbox_preds",
                     "flatten_mask_preds", "flatten_centerness",
                     "flatten_labels", "flatten_bbox_targets",
                     "flatten_mask_targets", "flatten_centerness_targets",
                     "flatten_points"} :
                Len(loc[t][1]) = RowsBefore(Len(args.cls_scores) + 1)
        /\ \A l \in DOMAIN args.cls_scores :
            \A b \in DOMAIN args.cls_scores[l] :
                LET H == size2(args.cls_scores[l][b])[1]
                    W == size2(args.cls_scores[l][b])[2]
                IN  \A h \in 1..H, w \in 1..W :
                        AlignedAt(l, b, h, w, W,
                            (b - 1) * H * W + (h - 1) * W + w,
                            (h - 1) * W + w,
                            RowsBefore(l) + (b - 1) * H * W + (h - 1) * W + w)

\* C6 witness: a completed loss on two levels and two images with
\* different labels, the first level a 2 x 2 grid, some points positive.
C6_Witness ==
    /\ call = "loss" /\ pc = "done"
    /\ Len(args.cls_scores) = 2
    /\ Len(args.cls_scores[1]) = 2
    /\ size2(args.cls_scores[1][1]) = <<2, 2>>
    /\ args.extra_data[1][1] # args.extra_data[1][2]
    /\ Len(loc.pos_inds[1]) > 0
    /\ Len(loc.flatten_points[1]) = 12

----------------------------------------------------------------------------
(* Properties of distance2mask. *)

\* Vertex k of the polygon of point n before any clamping: centre plus
\* distance times (sin, cos) of angle k, with the returned distances.
Unclamped(n, k, ax) ==
    LET row == ret.val[2][n]
        d == row[IF Len(row) = 1 THEN 1 ELSE k]
        a == self.angles[IF Len(self.angles) = 1 THEN 1 ELSE k]
    IN  d * (IF ax = 1 THEN sin_deg(a) ELSE cos_deg(a))
            + Fx(args.points[n][ax])

\* The vertex (x, y) lies in the image of max_shape = (H, W).
InImage(x, y) ==
    /\ 0 <= x /\ x <= Fx(args.max_shape[1][2] - 1)
    /\ 0 <= y /\ y <= Fx(args.max_shape[1][1] - 1)

\* The vertex (x, y) lies in the box b = (x1, y1, x2, y2).
InBox(x, y, b) == b[1] <= x /\ x <= b[3] /\ b[2] <= y /\ y <= b[4]

\* The box b lies in the image of max_shape = (H, W).
BoxInImage(b) == InImage(b[1], b[2]) /\ InImage(b[3], b[4])

----------------------------------------------------------------------------
(* Properties of polar_centerness_target. *)

(* C12: for every target vector whose entries are all strictly positive,   *)
(* polar_centerness_target returns sqrt(min / max) (here: the thousandths  *)
(* v with v^2 <= 1000000 * min / max < (v + 1)^2), the value lies in       *)
(* [0, 1], and it equals 1 exactly when all entries of the vector are      *)
(* equal.                                                                  *)
C12_CenternessBound ==
    (call = "polar_centerness_target" /\ pc = "done") =>
        /\ Len(ret.val) = Len(args.pos_mask_targets)
        /\ \A n \in DOMAIN args.pos_mask_targets :
            LET row == args.pos_mask_targets[n]
                lo == CHOOSE x \in {row[k] : k \in DOMAIN row} :
                            \A k \in DOMAIN row : x <= row[k]
                hi == CHOOSE x \in {row[k] : k \in DOMAIN row} :
                            \A k \in DOMAIN row : x >= row[k]
            IN  (\A k \in DOMAIN row : row[k] > 0) =>
                    /\ Len(ret.val[n]) = 1
                    /\ ret.val[n][1] * ret.val[n][1] * hi <= Fx(Fx(1)) * lo
                    /\ (ret.val[n][1] + 1) * (ret.val[n][1] + 1) * hi
                            > Fx(Fx(1)) * lo
                    /\ 0 <= ret.val[n][1] /\ ret.val[n][1] <= Fx(1)
                    /\ ret.val[n][1] = Fx(1)
                            <=> \A j, k \in DOMAIN row : row[j] = row[k]

\* C12 witness: two vectors of three positive distances, one with unequal
\* entries and a centerness strictly between 0 and 1, one with all entries
\* equal and centerness 1.
C12_Witness ==
    /\ call = "polar_centerness_target" /\ pc = "done"
    /\ Len(args.pos_mask_targets) = 2
    /\ args.pos_mask_targets[1] = <<1, 3, 2>>
    /\ args.pos_mask_targets[2] = <<2, 2, 2>>
    /\ ret.val[1][1] > 0 /\ ret.val[1][1] < Fx(1)
    /\ ret.val[2] = <<Fx(1)>>

----------------------------------------------------------------------------
(* Properties of point generation on degenerate levels. *)

(* C13: point generation for a level whose feature map is degenerate       *)
(* (h = 0 or w = 0) fails with an error: a call with such a level never    *)
(* completes with a result, so no empty point set is returned for it.      *)
C13_DegenerateRejected ==
    (/\ call = "get_points"
     /\ pc # "call"
     /\ \E i \in DOMAIN args.featmap_sizes :
            args.featmap_sizes[i][1] = 0 \/ args.featmap_sizes[i][2] = 0)
        => (pc = "error" /\ Raised(ret))

----------------------------------------------------------------------------
(* Properties of the frequency-domain payload. *)

(* C14: whenever the frequency-domain payload is used, on a head with      *)
(* 1 <= num_coe <= contour_points (any visulize_coe) whose angle table has *)
(* contour_points entries, distance2mask completes on the training path    *)
(* and on the inference path alike, and every reconstructed ray-distance   *)
(* vector it returns (the inverse transform of the zero-padded coefficient *)
(* sequence, of the same length) has exactly contour_points entries.       *)
C14_PaddedToK ==
    (/\ call = "distance2mask"
     /\ pc # "call"
     /\ self.use_fourier
     /\ 1 <= self.num_coe /\ self.num_coe <= self.contour_points
     /\ Len(self.angles) = self.contour_points)
        => /\ pc = "done"
           /\ \A n \in DOMAIN ret.val[2] :
                Len(ret.val[2][n]) = self.contour_points

=============================================================================
